---------------------------- MODULE Spec2Model ----------------------------
(***************************************************************************)
(* PII Detection & Redaction Engine (src/src/services/pii-scanner.ts).     *)
(*                                                                         *)
(* Strings are sequences of one-character strings.  Offsets are the        *)
(* 0-based, half-open offsets of JavaScript: the span [start, end) of a    *)
(* string s is SubSeq(s, start + 1, end).                                  *)
(*                                                                         *)
(* Confidences are kept in hundredths (0.95 is 95): the code only compares *)
(* them.                                                                   *)
(*                                                                         *)
(* The regular-expression engine is the environment: RegExp.exec on a      *)
(* global pattern returns, from lastIndex on, some span of the content or  *)
(* null.  What the catalog fixes is kept: a match is never empty, and it   *)
(* begins and ends with a non-whitespace character, because every pattern  *)
(* of the catalog begins and ends with an atom that is not whitespace.     *)
(***************************************************************************)
EXTENDS Integers, Sequences, FiniteSets, TLC

VARIABLES
    allowlist,      \* PIIScanner.allowlist : Map<string, AllowlistEntry>
    allowlistPath,  \* PIIScanner.allowlistPath : string | null
    now,            \* the clock read by new Date()
    files,          \* the file system: path -> document or NoFile
    pc,             \* "idle", "scanning" (inside scan), "setting" (inside
                    \* setAllowlist or setAllowlistEntries) or "awaiting"
                    \* (scanAndRedact waiting on its scan)
    content,        \* scan: the content argument
    patIdx,         \* scan: index of patternConfig in this.patterns
    lastIndex,      \* scan: patternConfig.pattern.lastIndex
    items,          \* scan: const items
    seenPositions,  \* scan: const seenPositions
    result,         \* the PIIScanResult of the last scan, kept by the caller
                    \* until it next edits the allowlist
    redacted,       \* the string redact returned for that result
    ret,            \* the last allowlist call and its outcome
    saved,          \* history: path -> the allowlist its document was saved from
    fresh,          \* history: "new" once constructed, "loaded" after one load into
                    \* a new scanner, "used" after any other allowlist change
    rawHits,        \* history: when on, the best confidence of the raw hits of
                    \* the running scan at each span, allowlisted hits left out
    gh,             \* GitHubConnector: retry configuration and the request in
                    \* progress
    kb,             \* KnowledgeBase: the jobs Map and the last addJobs call
    rx,             \* environment: when on, what the rules' regular
                    \* expressions match in rx.content (they match nothing
                    \* elsewhere); when off, exec may return any match
    catalog,        \* this.patterns: the rules in the order the scan takes them
    prev,           \* history: the last scan of rx.content that returned, with
                    \* the allowlist and the catalog it ran under
    loads           \* loadAllowlist calls waiting on readFile, and history of
                    \* the last one that settled

vars == <<allowlist, allowlistPath, now, files, pc, content, patIdx,
          lastIndex, items, seenPositions, result, redacted, ret, saved,
          fresh, rawHits, gh, kb, rx, catalog, prev, loads>>

scanVars == <<pc, content, patIdx, lastIndex, items, seenPositions, result,
              redacted>>

storeVars == <<allowlist, allowlistPath, now, files, ret, saved, fresh>>

-----------------------------------------------------------------------------
(* Bounds *)

MaxLen == 2
MaxValLen == 1
MaxEntries == 2
MaxItems == 3
MaxBatch == 2
MaxRetryConfig == 3
MaxJobs == 2

Chars == {"a", "A", " "}

Strings(n) == UNION {[1..k -> Chars] : k \in 0..n}

(* Scanned contents: a letter that lower-casing changes, and whitespace *)
ContentChars == {"A", " "}

Contents(n) == UNION {[1..k -> ContentChars] : k \in 0..n}

Undefined == "undefined"
Null == "null"

(* result and redacted hold at most one value: <<>> before any, <<v>> after *)
NoResult == <<>>
NoRedact == <<>>

-----------------------------------------------------------------------------
(* String primitives of the JavaScript runtime *)

Min(a, b) == IF a <= b THEN a ELSE b

(* String.prototype.slice with non-negative arguments: both are clamped   *)
(* to the length.                                                         *)
Slice(s, start, end) == SubSeq(s, Min(start, Len(s)) + 1, Min(end, Len(s)))

SliceFrom(s, start) == SubSeq(s, Min(start, Len(s)) + 1, Len(s))

ToLowerCase(s) == [i \in 1..Len(s) |-> IF s[i] = "A" THEN "a" ELSE s[i]]

IsSpace(c) == c = " "

Trim(s) ==
    LET keep == {i \in 1..Len(s) : ~IsSpace(s[i])}
    IN  IF keep = {} THEN <<>>
        ELSE LET lo == CHOOSE i \in keep : \A j \in keep : i <= j
                 hi == CHOOSE i \in keep : \A j \in keep : j <= i
             IN  SubSeq(s, lo, hi)

-----------------------------------------------------------------------------
(* The pattern catalog: type and confidence of each PIIPattern, in order *)

patterns ==
    << [type |-> "phone",     confidence |-> 95],
       [type |-> "phone",     confidence |-> 90],
       [type |-> "phone",     confidence |-> 90],
       [type |-> "phone",     confidence |-> 95],
       [type |-> "phone",     confidence |-> 90],
       [type |-> "ssn",       confidence |-> 95],
       [type |-> "ssn",       confidence |-> 70],
       [type |-> "email",     confidence |-> 95],
       [type |-> "address",   confidence |-> 85],
       [type |-> "address",   confidence |-> 90],
       [type |-> "address",   confidence |-> 95],
       [type |-> "address",   confidence |-> 90],
       [type |-> "dob",       confidence |-> 80],
       [type |-> "dob",       confidence |-> 75],
       [type |-> "dob",       confidence |-> 70],
       [type |-> "dob",       confidence |-> 95],
       [type |-> "financial", confidence |-> 95],
       [type |-> "financial", confidence |-> 85],
       [type |-> "financial", confidence |-> 90],
       [type |-> "financial", confidence |-> 90] >>

(* RegExp.prototype.exec of a global pattern: the matches it may return    *)
(* when the search starts at li.  A match is [index, text] with text the   *)
(* matched substring.                                                      *)
Exec(c, li) ==
    { [index |-> s, text |-> Slice(c, s, e)] :
        <<s, e>> \in { se \in (0..Len(c)) \X (0..Len(c)) :
                         /\ li <= se[1]
                         /\ se[1] < se[2]
                         /\ ~IsSpace(c[se[1] + 1])
                         /\ ~IsSpace(c[se[2]]) } }

(* The regular expressions as fixed functions of the content: seqs[p] is  *)
(* the sequence of spans that successive exec calls of rule p return in   *)
(* rx.content, each search starting where the match before it ended.      *)
NoOracle ==
    [on |-> FALSE, content |-> <<>>,
     seqs |-> [p \in 1..Len(patterns) |-> <<>>]]

(* initializePatterns(): the rules in the order they are written *)
IdentityCatalog == [i \in 1..Len(patterns) |-> i]

NoPrev ==
    [set |-> FALSE, repeat |-> FALSE, allowlist |-> <<>>,
     catalog |-> IdentityCatalog, result |-> NoResult]

NoLoads == [pending |-> {}, last |-> <<>>]

(* pattern.exec(content) of rule p with lastIndex li: the set of matches  *)
(* it may return, empty when it returns null                              *)
NextMatch(p, c, li) ==
    IF ~rx.on THEN Exec(c, li)
    ELSE IF c # rx.content THEN {}
    ELSE LET sq == rx.seqs[p]
             later == {k \in 1..Len(sq) : sq[k][1] >= li}
         IN  IF later = {} THEN {}
             ELSE LET k == CHOOSE i \in later : \A j \in later : i <= j
                  IN  {[index |-> sq[k][1],
                        text |-> Slice(c, sq[k][1], sq[k][2])]}

-----------------------------------------------------------------------------
(* Map<string, AllowlistEntry>: the pairs [key, entry] in insertion order *)

MapKeys(m) == {m[i].key : i \in 1..Len(m)}

MapHas(m, k) == k \in MapKeys(m)

MapIndex(m, k) == CHOOSE i \in 1..Len(m) : m[i].key = k

(* A faulty set that appends without looking for the key *)
MapSet_Append(m, k, e) == Append(m, [key |-> k, entry |-> e])

MapSet(m, k, e) ==
    IF MapHas(m, k)
    THEN [m EXCEPT ![MapIndex(m, k)] = [key |-> k, entry |-> e]]
    ELSE Append(m, [key |-> k, entry |-> e])

MapDelete(m, k) ==
    IF MapHas(m, k)
    THEN SubSeq(m, 1, MapIndex(m, k) - 1)
           \o SubSeq(m, MapIndex(m, k) + 1, Len(m))
    ELSE m

MapValues(m) == [i \in 1..Len(m) |-> m[i].entry]

-----------------------------------------------------------------------------
(* Allowlist queries *)

(* A faulty lookup that compares case-sensitively *)
isAllowlisted_CaseSensitive(value) == MapHas(allowlist, Trim(value))

isAllowlisted(value) == MapHas(allowlist, Trim(ToLowerCase(value)))

-----------------------------------------------------------------------------
(* scan: the overlap resolver *)

PositionKey(start, end) == <<start, end>>

Overlaps(start, end, item) ==
    \/ (start >= item.position.start /\ start < item.position.end)
    \/ (end > item.position.start /\ end <= item.position.end)
    \/ (start <= item.position.start /\ end >= item.position.end)

(* items.find(...): the index of the first overlapping item, 0 when none *)
FindOverlapping(its, start, end) ==
    LET hit == {i \in 1..Len(its) : Overlaps(start, end, its[i])}
    IN  IF hit = {} THEN 0 ELSE CHOOSE i \in hit : \A j \in hit : i <= j

(* items.splice(index, 1) *)
Splice1(its, index) ==
    SubSeq(its, 1, index - 1) \o SubSeq(its, index + 1, Len(its))

(* A faulty end offset that forgets the start of the match *)
MatchEnd_NoStart(start, value) == Len(value)

MatchEnd(start, value) == start + Len(value)

(* One pass of the while body for the match m of pattern p: the new        *)
(* <<items, seenPositions>>.                                               *)
LoopBody(its, seen, p, m) ==
    LET value == m.text
        start == m.index
        end   == MatchEnd(start, value)
        positionKey == PositionKey(start, end)
        index == FindOverlapping(its, start, end)
        item  == [type |-> patterns[p].type, value |-> value,
                  position |-> [start |-> start, end |-> end],
                  confidence |-> patterns[p].confidence]
    IN  IF positionKey \in seen \/ isAllowlisted(value)
        THEN <<its, seen>>
        ELSE IF index # 0
             THEN IF patterns[p].confidence > its[index].confidence
                  THEN << Append(Splice1(its, index), item),
                          (seen \ {PositionKey(its[index].position.start,
                                               its[index].position.end)})
                              \cup {positionKey} >>
                  ELSE <<its, seen>>
             ELSE << Append(its, item), seen \cup {positionKey} >>

(* History of the raw hits: the spans of a content of at most MaxLen      *)
(* characters, per span the best confidence seen (0: no hit), and the     *)
(* last match that exec returned.                                         *)
Spans == {sp \in (0..MaxLen) \X (0..MaxLen) : sp[1] < sp[2]}

NoHits == [sp \in Spans |-> 0]

Record(h, p, m) ==
    LET sp == PositionKey(m.index, MatchEnd(m.index, m.text))
        h1 == [h EXCEPT !.last = <<[rule |-> p, start |-> sp[1],
                                    end |-> sp[2],
                                    allowlisted |-> isAllowlisted(m.text)]>>]
    IN  IF ~h.on THEN h
        ELSE IF ~isAllowlisted(m.text) /\ patterns[p].confidence > h.best[sp]
        THEN [h1 EXCEPT !.best[sp] = patterns[p].confidence]
        ELSE h1

(* Array.prototype.sort is stable: insertion into an ascending sequence   *)
(* after every element that does not compare greater.                     *)
RECURSIVE SortAsc(_)
SortAsc(its) ==
    IF its = <<>> THEN <<>>
    ELSE LET rest == SortAsc(SubSeq(its, 1, Len(its) - 1))
             x    == its[Len(its)]
             k    == Cardinality({i \in 1..Len(rest) :
                         rest[i].position.start <= x.position.start})
         IN  SubSeq(rest, 1, k) \o <<x>> \o SubSeq(rest, k + 1, Len(rest))

RECURSIVE SortDesc(_)
SortDesc(its) ==
    IF its = <<>> THEN <<>>
    ELSE LET rest == SortDesc(SubSeq(its, 1, Len(its) - 1))
             x    == its[Len(its)]
             k    == Cardinality({i \in 1..Len(rest) :
                         rest[i].position.start >= x.position.start})
         IN  SubSeq(rest, 1, k) \o <<x>> \o SubSeq(rest, k + 1, Len(rest))

-----------------------------------------------------------------------------
(* Risk classifier *)

highRiskTypes == {"ssn", "financial"}
mediumRiskTypes == {"address", "dob"}
lowRiskTypes == {"phone", "email"}

(* A faulty classifier that lets a low-risk item temper a medium-risk one *)
calculateRiskLevel_Tempered(its) ==
    LET hasHighRisk   == \E i \in 1..Len(its) : its[i].type \in highRiskTypes
        hasMediumRisk == \E i \in 1..Len(its) : its[i].type \in mediumRiskTypes
        hasLowRisk    == \E i \in 1..Len(its) : its[i].type \in lowRiskTypes
    IN  IF Len(its) = 0 THEN "none"
        ELSE IF hasHighRisk THEN "high"
        ELSE IF hasMediumRisk /\ ~hasLowRisk THEN "medium"
        ELSE IF hasLowRisk /\ Len(its) >= 3 THEN "medium"
        ELSE "low"

(* A faulty classifier that escalates only above three items *)
calculateRiskLevel_Above3(its) ==
    LET hasHighRisk   == \E i \in 1..Len(its) : its[i].type \in highRiskTypes
        hasMediumRisk == \E i \in 1..Len(its) : its[i].type \in mediumRiskTypes
        hasLowRisk    == \E i \in 1..Len(its) : its[i].type \in lowRiskTypes
    IN  IF Len(its) = 0 THEN "none"
        ELSE IF hasHighRisk THEN "high"
        ELSE IF hasMediumRisk THEN "medium"
        ELSE IF hasLowRisk /\ Len(its) > 3 THEN "medium"
        ELSE "low"

calculateRiskLevel(its) ==
    LET hasHighRisk   == \E i \in 1..Len(its) : its[i].type \in highRiskTypes
        hasMediumRisk == \E i \in 1..Len(its) : its[i].type \in mediumRiskTypes
        hasLowRisk    == \E i \in 1..Len(its) : its[i].type \in lowRiskTypes
    IN  IF Len(its) = 0 THEN "none"
        ELSE IF hasHighRisk THEN "high"
        ELSE IF hasMediumRisk THEN "medium"
        ELSE IF hasLowRisk /\ Len(its) >= 3 THEN "medium"
        ELSE "low"

-----------------------------------------------------------------------------
(* Redactor *)

getRedactionPlaceholder(type) ==
    CASE type = "phone" ->
           <<"[","P","H","O","N","E"," ","R","E","D","A","C","T","E","D","]">>
      [] type = "address" ->
           <<"[","A","D","D","R","E","S","S"," ",
             "R","E","D","A","C","T","E","D","]">>
      [] type = "ssn" ->
           <<"[","S","S","N"," ","R","E","D","A","C","T","E","D","]">>
      [] type = "email" ->
           <<"[","E","M","A","I","L"," ","R","E","D","A","C","T","E","D","]">>
      [] type = "dob" ->
           <<"[","D","O","B"," ","R","E","D","A","C","T","E","D","]">>
      [] type = "financial" ->
           <<"[","F","I","N","A","N","C","I","A","L"," ","I","N","F","O"," ",
             "R","E","D","A","C","T","E","D","]">>

(* the for loop of redact over sortedItems[k..] *)
RECURSIVE RedactLoop(_, _, _)
RedactLoop(redactedContent, sortedItems, k) ==
    IF k > Len(sortedItems) THEN redactedContent
    ELSE LET item == sortedItems[k]
         IN  RedactLoop(Slice(redactedContent, 0, item.position.start)
                          \o getRedactionPlaceholder(item.type)
                          \o SliceFrom(redactedContent, item.position.end),
                        sortedItems, k + 1)

redact(c, piiItems) ==
    IF Len(piiItems) = 0 THEN c
    ELSE RedactLoop(c, SortDesc(piiItems), 1)


-----------------------------------------------------------------------------
(* GitHubConnector.makeAuthenticatedRequestWithRetry and the operations   *)
(* that call it (getRepositories, getRepositoryDetails, getUserProfile)   *)

scannerVars == <<allowlist, allowlistPath, now, files, pc, content, patIdx,
                 lastIndex, items, seenPositions, result, redacted, ret,
                 saved, fresh, rawHits, rx, catalog, prev, loads>>

DefaultMaxAttempts == 3

(* What one attempt ends with: a Response, or an error thrown by          *)
(* makeRequest (TimeoutError after the abort timer, TypeError from fetch, *)
(* any other Error).                                                      *)
Response(status, rateLimited) ==
    [kind |-> "response", status |-> status, rateLimited |-> rateLimited,
     name |-> ""]

Thrown(name) ==
    [kind |-> "throw", status |-> 0, rateLimited |-> FALSE, name |-> name]

Statuses == {200, 401, 403, 404, 422, 500, 503}

Outcomes ==
    {Response(st, FALSE) : st \in Statuses}
        \cup {Response(403, TRUE)}
        \cup {Thrown(n) : n \in {"TimeoutError", "TypeError", "Error"}}

(* response.ok *)
Ok(r) == r.status >= 200 /\ r.status <= 299

GitHubError(type, statusCode, retryable, timedOut) ==
    [type |-> type, statusCode |-> statusCode, retryable |-> retryable,
     timedOut |-> timedOut]

(* A faulty mapping that marks every error retryable *)
handleErrorResponse_Retryable(r) ==
    CASE r.status = 401 -> GitHubError("unauthorized", 401, TRUE, FALSE)
      [] r.status = 403 -> GitHubError("forbidden", 403, TRUE, FALSE)
      [] r.status = 404 -> GitHubError("not_found", 404, TRUE, FALSE)
      [] r.status >= 500 -> GitHubError("server_error", r.status, TRUE, FALSE)
      [] OTHER -> GitHubError("unknown", r.status, TRUE, FALSE)

handleErrorResponse(r) ==
    CASE r.status = 401 -> GitHubError("unauthorized", 401, FALSE, FALSE)
      [] r.status = 403 -> GitHubError("forbidden", 403, r.rateLimited, FALSE)
      [] r.status = 404 -> GitHubError("not_found", 404, FALSE, FALSE)
      [] r.status >= 500 -> GitHubError("server_error", r.status, TRUE, FALSE)
      [] OTHER -> GitHubError("unknown", r.status, FALSE, FALSE)

(* createNetworkError(error, isTimeout): no statusCode *)
createNetworkError(isTimeout) ==
    GitHubError("network_error", 0, TRUE, isTimeout)

NoGitHubError == GitHubError("none", 0, FALSE, FALSE)

(* new GitHubConnector({maxAttempts}) and the locals of a request that    *)
(* has not started.  trace is the history of the attempts' outcomes.      *)
NewConnector(maxAttempts) ==
    [maxAttempts |-> maxAttempts, pc |-> "idle", attempt |-> 0,
     trace |-> <<>>, lastError |-> <<>>, lastResponse |-> <<>>,
     returned |-> <<>>, thrown |-> <<>>, out |-> <<>>]

(* A faulty pass of the loop that goes round again without counting *)
Attempt_NoCount(g, o) ==
    LET g1 == [g EXCEPT !.trace = Append(@, o)]
    IN  IF o.kind = "response" /\ Ok(o)
        THEN [g1 EXCEPT !.pc = "returned", !.returned = <<o>>]
        ELSE g1

(* One pass of the for loop, the attempt ending with o *)
Attempt(g, o) ==
    LET g1 == [g EXCEPT !.trace = Append(@, o)]
        isTimeout == o.name = "TimeoutError"
        isNetworkError == o.name = "TypeError"
    IN  IF o.kind = "response"
        THEN IF Ok(o)
             THEN [g1 EXCEPT !.pc = "returned", !.returned = <<o>>]
             ELSE IF o.status >= 500
             THEN LET g2 == [g1 EXCEPT
                               !.lastResponse = <<o>>,
                               !.lastError = <<handleErrorResponse(o)>>]
                  IN  IF g.attempt < g.maxAttempts - 1
                      THEN [g2 EXCEPT !.attempt = g.attempt + 1]
                      ELSE [g2 EXCEPT !.pc = "returned", !.returned = <<o>>]
             ELSE [g1 EXCEPT !.pc = "returned", !.returned = <<o>>]
        ELSE IF isTimeout \/ isNetworkError
             THEN LET g2 == [g1 EXCEPT
                               !.lastError = <<createNetworkError(isTimeout)>>]
                  IN  IF isTimeout /\ g.attempt >= 1
                      THEN [g2 EXCEPT !.pc = "thrown",
                                      !.thrown = g2.lastError]
                      ELSE IF g.attempt < g.maxAttempts - 1
                      THEN [g2 EXCEPT !.attempt = g.attempt + 1]
                      ELSE [g2 EXCEPT
                              !.pc = "thrown",
                              !.thrown = <<createNetworkError(FALSE)>>]
             ELSE [g1 EXCEPT !.pc = "thrown",
                             !.thrown = <<createNetworkError(FALSE)>>]

GhConstruct ==
    /\ gh.pc \in {"idle", "done"}
    /\ \E m \in 0..MaxRetryConfig : gh' = NewConnector(m)
    /\ UNCHANGED scannerVars
    /\ UNCHANGED kb

(* an operation calls makeAuthenticatedRequestWithRetry *)
GhRequest ==
    /\ gh.pc \in {"idle", "done"}
    /\ gh' = [NewConnector(gh.maxAttempts) EXCEPT !.pc = "loop"]
    /\ UNCHANGED scannerVars
    /\ UNCHANGED kb

GhAttempt ==
    /\ gh.pc = "loop"
    /\ gh.attempt < gh.maxAttempts
    /\ \E o \in Outcomes : gh' = Attempt(gh, o)
    /\ UNCHANGED scannerVars
    /\ UNCHANGED kb

(* the for loop ends without a return or a throw *)
GhExhausted ==
    /\ gh.pc = "loop"
    /\ ~(gh.attempt < gh.maxAttempts)
    /\ gh' = IF gh.lastResponse # <<>>
             THEN [gh EXCEPT !.pc = "returned", !.returned = gh.lastResponse]
             ELSE IF gh.lastError # <<>>
             THEN [gh EXCEPT !.pc = "thrown", !.thrown = gh.lastError]
             ELSE [gh EXCEPT !.pc = "thrown",
                             !.thrown = <<createNetworkError(FALSE)>>]
    /\ UNCHANGED scannerVars
    /\ UNCHANGED kb

(* the operation: if (!response.ok) throw await handleErrorResponse(..),  *)
(* and an error thrown by the wrapper passes through                      *)
GhOperationEnd ==
    /\ gh.pc \in {"returned", "thrown"}
    /\ gh' = [gh EXCEPT
                !.pc = "done",
                !.out = IF gh.pc = "thrown"
                        THEN <<[ok |-> FALSE, error |-> gh.thrown[1]]>>
                        ELSE IF Ok(gh.returned[1])
                        THEN <<[ok |-> TRUE, error |-> NoGitHubError]>>
                        ELSE <<[ok |-> FALSE,
                                error |-> handleErrorResponse(
                                              gh.returned[1])]>>]
    /\ UNCHANGED scannerVars
    /\ UNCHANGED kb

-----------------------------------------------------------------------------
(* KnowledgeBase (src/src/storage/knowledge-base.ts)                      *)

JobIds == {<<"1">>, <<"2">>, <<"a", "|", "a">>}
JobTitles == {<<"a">>, <<"A">>}
JobCompany == <<"a">>

Jobs ==
    {[id |-> i, title |-> t, company |-> JobCompany] :
        i \in JobIds, t \in JobTitles}

getDeduplicationKey(job) ==
    ToLowerCase(job.title) \o <<"|">> \o ToLowerCase(job.company)

NewKnowledgeBase ==
    [jobs |-> <<>>, op |-> "new", arg |-> <<>>,
     ret |-> [added |-> 0, duplicates |-> 0]]

(* the for loop of addJobs over jobs[k..] *)
RECURSIVE AddJobsLoop(_, _, _, _, _)
AddJobsLoop(m, jobs, k, added, duplicates) ==
    IF k > Len(jobs)
    THEN [jobs |-> m, ret |-> [added |-> added, duplicates |-> duplicates]]
    ELSE LET job == jobs[k]
             key == getDeduplicationKey(job)
         IN  IF ~MapHas(m, key)
             THEN AddJobsLoop(MapSet(m, job.id, job), jobs, k + 1,
                              added + 1, duplicates)
             ELSE AddJobsLoop(m, jobs, k + 1, added, duplicates + 1)

(* addJobs(jobs): no await in the body *)
KbAddJobs ==
    /\ \E jobs \in UNION {[1..n -> Jobs] : n \in 0..MaxJobs} :
          LET r == AddJobsLoop(kb.jobs, jobs, 1, 0, 0)
          IN  kb' = [jobs |-> r.jobs, op |-> "addJobs", arg |-> jobs,
                     ret |-> r.ret]
    /\ UNCHANGED scannerVars
    /\ UNCHANGED gh

(* clear() *)
KbClear ==
    /\ kb' = [NewKnowledgeBase EXCEPT !.op = "clear"]
    /\ UNCHANGED scannerVars
    /\ UNCHANGED gh

-----------------------------------------------------------------------------
(* Initial state: a scanner constructed without a path, nothing on disk *)

Paths == {"p1", "p2"}

(* files[p] is <<>> when nothing exists at p, else <<document>> *)
NoFile == <<>>

Ret(op, path, arg, value) ==
    [op |-> op, path |-> path, arg |-> arg, value |-> value]

Init ==
    /\ allowlist = <<>>
    /\ allowlistPath = Null
    /\ now = 0
    /\ files = [p \in Paths |-> NoFile]
    /\ pc = "idle"
    /\ content = <<>>
    /\ patIdx = 1
    /\ lastIndex = 0
    /\ items = <<>>
    /\ seenPositions = {}
    /\ result = NoResult
    /\ redacted = NoRedact
    /\ ret = Ret("new", Undefined, <<>>, Undefined)
    /\ saved = [p \in Paths |-> <<>>]
    /\ fresh = "new"
    /\ rawHits = [on |-> FALSE, best |-> NoHits, last |-> <<>>]
    /\ gh = NewConnector(DefaultMaxAttempts)
    /\ kb = NewKnowledgeBase
    /\ rx = NoOracle
    /\ catalog = IdentityCatalog
    /\ prev = NoPrev
    /\ loads = NoLoads

-----------------------------------------------------------------------------
(* scan(content).  The body has no await: it runs to completion before    *)
(* any other call of the scanner, so the other operations are enabled     *)
(* only when pc = "idle".                                                 *)

(* A faulty scan whose seenPositions outlive the call: it starts with    *)
(* the spans of the result before it                                      *)
BeginScan_SeenKept ==
    /\ pc = "idle"
    /\ \E c \in Contents(MaxLen) : content' = c
    /\ pc' = "scanning"
    /\ patIdx' = 1
    /\ lastIndex' = 0
    /\ items' = <<>>
    /\ seenPositions' =
          IF result = NoResult THEN {}
          ELSE {PositionKey(result[1].items[i].position.start,
                            result[1].items[i].position.end) :
                  i \in 1..Len(result[1].items)}
    /\ result' = NoResult
    /\ redacted' = NoRedact
    /\ ret' = Ret("scan", Undefined, <<>>, Undefined)
    /\ UNCHANGED <<allowlist, allowlistPath, now, files, saved, fresh>>
    /\ rawHits' = [rawHits EXCEPT !.best = NoHits]
    /\ UNCHANGED <<gh, kb>>
    /\ UNCHANGED <<rx, catalog, prev, loads>>

BeginScan ==
    /\ pc = "idle"
    /\ \E c \in Contents(MaxLen) : content' = c
    /\ pc' = "scanning"
    /\ patIdx' = 1
    /\ lastIndex' = 0
    /\ items' = <<>>
    /\ seenPositions' = {}
    /\ result' = NoResult
    /\ redacted' = NoRedact
    /\ ret' = Ret("scan", Undefined, <<>>, Undefined)
    /\ UNCHANGED <<allowlist, allowlistPath, now, files, saved, fresh>>
    /\ rawHits' = [rawHits EXCEPT !.best = NoHits]
    /\ UNCHANGED <<gh, kb>>
    /\ UNCHANGED <<rx, catalog, prev, loads>>

(* exec returns a match: one pass of the while body *)
ExecMatch ==
    /\ pc = "scanning"
    /\ patIdx <= Len(patterns)
    /\ \E m \in NextMatch(catalog[patIdx], content, lastIndex) :
          /\ items' = LoopBody(items, seenPositions, catalog[patIdx], m)[1]
          /\ seenPositions' =
                 LoopBody(items, seenPositions, catalog[patIdx], m)[2]
          /\ lastIndex' = m.index + Len(m.text)
          /\ rawHits' = Record(rawHits, catalog[patIdx], m)
    /\ UNCHANGED <<pc, content, patIdx, result, redacted>>
    /\ UNCHANGED storeVars
    /\ UNCHANGED <<gh, kb>>
    /\ UNCHANGED <<rx, catalog, prev, loads>>

(* exec returns null: the while loop ends, the for loop takes the next    *)
(* pattern and resets its lastIndex                                       *)
ExecNull ==
    /\ pc = "scanning"
    /\ patIdx <= Len(patterns)
    /\ rx.on => NextMatch(catalog[patIdx], content, lastIndex) = {}
    /\ patIdx' = patIdx + 1
    /\ lastIndex' = 0
    /\ UNCHANGED <<pc, content, items, seenPositions, result, redacted>>
    /\ UNCHANGED storeVars
    /\ UNCHANGED <<rawHits, gh, kb>>
    /\ UNCHANGED <<rx, catalog, prev, loads>>

(* A faulty result that always asks for review *)
ScanResult_AlwaysReview(its) ==
    LET sorted == SortAsc(its)
    IN  [hasPII |-> Len(sorted) > 0,
         items |-> sorted,
         riskLevel |-> calculateRiskLevel(sorted),
         requiresReview |-> TRUE]

ScanResult(its) ==
    LET sorted == SortAsc(its)
        hasPII == Len(sorted) > 0
    IN  [hasPII |-> hasPII,
         items |-> sorted,
         riskLevel |-> calculateRiskLevel(sorted),
         requiresReview |-> hasPII]

(* History: the scan of rx.content that returns with the items its;     *)
(* repeat tells that the scan of rx.content before it ran under the same  *)
(* allowlist and catalog                                                  *)
Remember(its) ==
    IF rx.on /\ content = rx.content
    THEN [set |-> TRUE,
          repeat |-> /\ prev.set
                     /\ prev.allowlist = allowlist
                     /\ prev.catalog = catalog,
          allowlist |-> allowlist, catalog |-> catalog,
          result |-> <<ScanResult(its)>>]
    ELSE prev

FinishScan ==
    /\ pc = "scanning"
    /\ ret.op = "scan"
    /\ patIdx > Len(patterns)
    /\ result' = <<ScanResult(items)>>
    /\ pc' = "idle"
    /\ items' = <<>>
    /\ seenPositions' = {}
    /\ patIdx' = 1
    /\ lastIndex' = 0
    /\ UNCHANGED <<content, redacted>>
    /\ UNCHANGED storeVars
    /\ UNCHANGED <<rawHits, gh, kb>>
    /\ prev' = Remember(items)
    /\ UNCHANGED <<rx, catalog, loads>>

(* scanBatch(contents): contents.map calls scan(content) for one element *)
(* after the other; scan has no await, so each call runs to its return    *)
(* before map makes the next one.  Promise.all then resolves with the     *)
(* results in the order of the calls.  ret.arg holds contents, ret.value  *)
(* the results so far.                                                    *)
(* The contents given to scanBatch hold at most one character that is   *)
(* not a blank, so that each has at most one span to report.              *)
BatchContents ==
    {c \in Contents(MaxLen) :
        Cardinality({i \in 1..Len(c) : ~IsSpace(c[i])}) <= 1}

BeginBatch ==
    /\ pc = "idle"
    /\ \E contents \in UNION {[1..n -> BatchContents] : n \in 0..MaxBatch} :
          /\ ret' = Ret("scanBatch", Undefined, contents, <<>>)
          /\ IF Len(contents) = 0
             THEN pc' = "idle" /\ content' = <<>>
             ELSE pc' = "scanning" /\ content' = contents[1]
    /\ patIdx' = 1
    /\ lastIndex' = 0
    /\ items' = <<>>
    /\ seenPositions' = {}
    /\ result' = NoResult
    /\ redacted' = NoRedact
    /\ UNCHANGED <<allowlist, allowlistPath, now, files, saved, fresh>>
    /\ rawHits' = [rawHits EXCEPT !.best = NoHits]
    /\ UNCHANGED <<gh, kb>>
    /\ UNCHANGED <<rx, catalog, prev, loads>>

(* A faulty batch whose next scan inherits the items found so far *)
BatchNext_KeepItems ==
    /\ pc = "scanning"
    /\ ret.op = "scanBatch"
    /\ patIdx > Len(patterns)
    /\ ret' = [ret EXCEPT !.value = Append(@, ScanResult(items))]
    /\ IF Len(ret.value) + 2 <= Len(ret.arg)
       THEN pc' = "scanning" /\ content' = ret.arg[Len(ret.value) + 2]
       ELSE pc' = "idle" /\ content' = content
    /\ patIdx' = 1
    /\ lastIndex' = 0
    /\ IF Len(ret.value) + 2 <= Len(ret.arg)
       THEN UNCHANGED <<items, seenPositions>>
       ELSE items' = <<>> /\ seenPositions' = {}
    /\ UNCHANGED <<result, redacted>>
    /\ UNCHANGED <<allowlist, allowlistPath, now, files, saved, fresh>>
    /\ UNCHANGED <<rawHits, gh, kb>>
    /\ prev' = Remember(items)
    /\ UNCHANGED <<rx, catalog, loads>>

(* a scan of the batch returns; map calls scan for the next element *)
BatchNext ==
    /\ pc = "scanning"
    /\ ret.op = "scanBatch"
    /\ patIdx > Len(patterns)
    /\ ret' = [ret EXCEPT !.value = Append(@, ScanResult(items))]
    /\ IF Len(ret.value) + 2 <= Len(ret.arg)
       THEN pc' = "scanning" /\ content' = ret.arg[Len(ret.value) + 2]
       ELSE pc' = "idle" /\ content' = content
    /\ patIdx' = 1
    /\ lastIndex' = 0
    /\ items' = <<>>
    /\ seenPositions' = {}
    /\ UNCHANGED <<result, redacted>>
    /\ UNCHANGED <<allowlist, allowlistPath, now, files, saved, fresh>>
    /\ UNCHANGED <<rawHits, gh, kb>>
    /\ prev' = Remember(items)
    /\ UNCHANGED <<rx, catalog, loads>>

(* scanAndRedact(content): the call runs scan to its return, then waits   *)
(* on the promise; the continuation redacts and returns.  result and      *)
(* redacted hold scanResult and redactedContent.                          *)
BeginScanAndRedact ==
    /\ pc = "idle"
    /\ \E c \in Contents(MaxLen) :
          /\ content' = c
          /\ ret' = Ret("scanAndRedact", Undefined, c, Undefined)
    /\ pc' = "scanning"
    /\ patIdx' = 1
    /\ lastIndex' = 0
    /\ items' = <<>>
    /\ seenPositions' = {}
    /\ result' = NoResult
    /\ redacted' = NoRedact
    /\ UNCHANGED <<allowlist, allowlistPath, now, files, saved, fresh>>
    /\ rawHits' = [rawHits EXCEPT !.best = NoHits]
    /\ UNCHANGED <<gh, kb>>
    /\ UNCHANGED <<rx, catalog, prev, loads>>

AwaitScan ==
    /\ pc = "scanning"
    /\ ret.op = "scanAndRedact"
    /\ patIdx > Len(patterns)
    /\ result' = <<ScanResult(items)>>
    /\ pc' = "awaiting"
    /\ items' = <<>>
    /\ seenPositions' = {}
    /\ patIdx' = 1
    /\ lastIndex' = 0
    /\ UNCHANGED <<content, redacted>>
    /\ UNCHANGED storeVars
    /\ UNCHANGED <<rawHits, gh, kb>>
    /\ prev' = Remember(items)
    /\ UNCHANGED <<rx, catalog, loads>>

(* A faulty continuation that returns the content as it came *)
ResumeScanAndRedact_Unredacted ==
    /\ pc = "awaiting"
    /\ redacted' = <<content>>
    /\ pc' = "idle"
    /\ UNCHANGED <<content, patIdx, lastIndex, items, seenPositions, result>>
    /\ UNCHANGED storeVars
    /\ UNCHANGED <<rawHits, gh, kb>>
    /\ UNCHANGED <<rx, catalog, prev, loads>>

ResumeScanAndRedact ==
    /\ pc = "awaiting"
    /\ redacted' = <<redact(content, result[1].items)>>
    /\ pc' = "idle"
    /\ UNCHANGED <<content, patIdx, lastIndex, items, seenPositions, result>>
    /\ UNCHANGED storeVars
    /\ UNCHANGED <<rawHits, gh, kb>>
    /\ UNCHANGED <<rx, catalog, prev, loads>>

(* redact(content, result.items) on the result of the last scan *)
Redact ==
    /\ pc = "idle"
    /\ result # NoResult
    /\ redacted' = <<redact(content, result[1].items)>>
    /\ UNCHANGED <<pc, content, patIdx, lastIndex, items, seenPositions,
                   result>>
    /\ UNCHANGED storeVars
    /\ UNCHANGED <<rawHits, gh, kb>>
    /\ UNCHANGED <<rx, catalog, prev, loads>>

-----------------------------------------------------------------------------
(* Allowlist store *)

(* Date values: an instant in ms, or an Invalid Date *)
DateOf(t) == [kind |-> "date", valid |-> TRUE, t |-> t]
InvalidDate == [kind |-> "date", valid |-> FALSE, t |-> 0]

(* The other values addedAt takes in a parsed document *)
IsoString(t) == [kind |-> "string", valid |-> TRUE, t |-> t]
JsonNull == [kind |-> "null", valid |-> FALSE, t |-> 0]
JsUndefined == [kind |-> "undefined", valid |-> FALSE, t |-> 0]

(* new Date(x) *)
NewDate(x) ==
    CASE x.kind = "date" -> x
      [] x.kind = "string" -> DateOf(x.t)
      [] x.kind = "null" -> DateOf(0)
      [] x.kind = "undefined" -> InvalidDate

(* Date.prototype.toJSON: the ISO string, null for an Invalid Date *)
DateToJSON(d) == IF d.valid THEN IsoString(d.t) ELSE JsonNull

(* JSON.stringify leaves out a property whose value is undefined; reading *)
(* a property the parsed object lacks yields undefined.                   *)
Absent == "absent"
PropToJSON(x) == IF x = Undefined THEN Absent ELSE x
PropOfJSON(x) == IF x = Absent THEN Undefined ELSE x

(* !x for the values a path or a version takes *)
Falsy(x) == x \in {Undefined, Null, Absent, ""}

(* A faulty add that lower-cases the key but does not trim it *)
addToAllowlist_NoTrim(m, value, type, reason) ==
    LET normalizedValue == ToLowerCase(value)
        entry == [value |-> normalizedValue, type |-> type,
                  reason |-> reason, addedAt |-> DateOf(now)]
    IN  MapSet(m, normalizedValue, entry)

addToAllowlist(m, value, type, reason) ==
    LET normalizedValue == Trim(ToLowerCase(value))
        entry == [value |-> normalizedValue, type |-> type,
                  reason |-> reason, addedAt |-> DateOf(now)]
    IN  MapSet(m, normalizedValue, entry)

AddToAllowlist(value, type, reason) ==
    /\ pc = "idle"
    /\ allowlist' = addToAllowlist(allowlist, value, type, reason)
    /\ ret' = Ret("add", Undefined, value, Undefined)
    /\ fresh' = "used"
    /\ UNCHANGED <<allowlistPath, now, files, saved>>
    /\ result' = NoResult
    /\ redacted' = NoRedact
    /\ UNCHANGED <<pc, content, patIdx, lastIndex, items, seenPositions>>
    /\ UNCHANGED <<rawHits, gh, kb>>
    /\ UNCHANGED <<rx, catalog, prev, loads>>

(* A faulty remove that looks the value up as it was typed *)
RemoveFromAllowlist_NoNorm(value) ==
    /\ pc = "idle"
    /\ allowlist' = MapDelete(allowlist, value)
    /\ ret' = Ret("remove", Undefined, value, Undefined)
    /\ fresh' = "used"
    /\ UNCHANGED <<allowlistPath, now, files, saved>>
    /\ result' = NoResult
    /\ redacted' = NoRedact
    /\ UNCHANGED <<pc, content, patIdx, lastIndex, items, seenPositions>>
    /\ UNCHANGED <<rawHits, gh, kb>>
    /\ UNCHANGED <<rx, catalog, prev, loads>>

RemoveFromAllowlist(value) ==
    /\ pc = "idle"
    /\ allowlist' = MapDelete(allowlist, Trim(ToLowerCase(value)))
    /\ ret' = Ret("remove", Undefined, value, Undefined)
    /\ fresh' = "used"
    /\ UNCHANGED <<allowlistPath, now, files, saved>>
    /\ result' = NoResult
    /\ redacted' = NoRedact
    /\ UNCHANGED <<pc, content, patIdx, lastIndex, items, seenPositions>>
    /\ UNCHANGED <<rawHits, gh, kb>>
    /\ UNCHANGED <<rx, catalog, prev, loads>>

ClearAllowlist ==
    /\ pc = "idle"
    /\ allowlist' = <<>>
    /\ ret' = Ret("clear", Undefined, <<>>, Undefined)
    /\ fresh' = "used"
    /\ UNCHANGED <<allowlistPath, now, files, saved>>
    /\ result' = NoResult
    /\ redacted' = NoRedact
    /\ UNCHANGED <<pc, content, patIdx, lastIndex, items, seenPositions>>
    /\ UNCHANGED <<rawHits, gh, kb>>
    /\ UNCHANGED <<rx, catalog, prev, loads>>

(* the for loop of setAllowlistEntries over entries[k..], after clear() *)
RECURSIVE SetEntriesLoop(_, _, _)
SetEntriesLoop(m, entries, k) ==
    IF k > Len(entries) THEN m
    ELSE LET entry == entries[k]
             normalizedValue == Trim(ToLowerCase(entry.value))
         IN  SetEntriesLoop(
                 MapSet(m, normalizedValue,
                        [value |-> normalizedValue,
                         type |-> entry.type,
                         reason |-> entry.reason,
                         addedAt |-> IF entry.addedAt.kind = "date"
                                     THEN entry.addedAt
                                     ELSE NewDate(entry.addedAt)]),
                 entries, k + 1)

(* A faulty setAllowlistEntries that skips this.allowlist.clear() *)
setAllowlistEntries_Merge(entries) == SetEntriesLoop(allowlist, entries, 1)

setAllowlistEntries(entries) == SetEntriesLoop(<<>>, entries, 1)

(* setAllowlistEntries(entries) is synchronous: clear(), then one pass of *)
(* the for loop per entry, then return; no other call runs in between.    *)
(* ret.arg collects the entries passed so far.                            *)

(* A faulty start that does not clear the Map *)
BeginSetEntries_NoClear ==
    /\ pc = "idle"
    /\ pc' = "setting"
    /\ allowlist' = allowlist
    /\ ret' = Ret("setEntries", Undefined, <<>>, Undefined)
    /\ fresh' = "used"
    /\ result' = NoResult
    /\ redacted' = NoRedact
    /\ UNCHANGED <<allowlistPath, now, files, saved>>
    /\ UNCHANGED <<content, patIdx, lastIndex, items, seenPositions>>
    /\ UNCHANGED <<rawHits, gh, kb>>
    /\ UNCHANGED <<rx, catalog, prev, loads>>

BeginSetEntries ==
    /\ pc = "idle"
    /\ pc' = "setting"
    /\ allowlist' = <<>>
    /\ ret' = Ret("setEntries", Undefined, <<>>, Undefined)
    /\ fresh' = "used"
    /\ result' = NoResult
    /\ redacted' = NoRedact
    /\ UNCHANGED <<allowlistPath, now, files, saved>>
    /\ UNCHANGED <<content, patIdx, lastIndex, items, seenPositions>>
    /\ UNCHANGED <<rawHits, gh, kb>>
    /\ UNCHANGED <<rx, catalog, prev, loads>>

SetEntriesStep(entry) ==
    /\ pc = "setting"
    /\ ret.op = "setEntries"
    /\ Len(ret.arg) < MaxEntries
    /\ allowlist' = SetEntriesLoop(allowlist, <<entry>>, 1)
    /\ ret' = [ret EXCEPT !.arg = Append(@, entry)]
    /\ UNCHANGED <<allowlistPath, now, files, saved, fresh>>
    /\ UNCHANGED scanVars
    /\ UNCHANGED <<rawHits, gh, kb>>
    /\ UNCHANGED <<rx, catalog, prev, loads>>

EndSetEntries ==
    /\ pc = "setting"
    /\ ret.op = "setEntries"
    /\ pc' = "idle"
    /\ UNCHANGED storeVars
    /\ UNCHANGED <<content, patIdx, lastIndex, items, seenPositions, result,
                   redacted>>
    /\ UNCHANGED <<rawHits, gh, kb>>
    /\ UNCHANGED <<rx, catalog, prev, loads>>

(* setAllowlist(values): clear(), then addToAllowlist(value) per value;   *)
(* synchronous like setAllowlistEntries.  ret.arg collects the values.    *)
BeginSetAllowlist ==
    /\ pc = "idle"
    /\ pc' = "setting"
    /\ allowlist' = <<>>
    /\ ret' = Ret("setAllowlist", Undefined, <<>>, Undefined)
    /\ fresh' = "used"
    /\ result' = NoResult
    /\ redacted' = NoRedact
    /\ UNCHANGED <<allowlistPath, now, files, saved>>
    /\ UNCHANGED <<content, patIdx, lastIndex, items, seenPositions>>
    /\ UNCHANGED <<rawHits, gh, kb>>
    /\ UNCHANGED <<rx, catalog, prev, loads>>

SetAllowlistStep(value) ==
    /\ pc = "setting"
    /\ ret.op = "setAllowlist"
    /\ Len(ret.arg) < MaxEntries
    /\ allowlist' = addToAllowlist(allowlist, value, Undefined, Undefined)
    /\ ret' = [ret EXCEPT !.arg = Append(@, value)]
    /\ UNCHANGED <<allowlistPath, now, files, saved, fresh>>
    /\ UNCHANGED scanVars
    /\ UNCHANGED <<rawHits, gh, kb>>
    /\ UNCHANGED <<rx, catalog, prev, loads>>

EndSetAllowlist ==
    /\ pc = "setting"
    /\ ret.op = "setAllowlist"
    /\ pc' = "idle"
    /\ UNCHANGED storeVars
    /\ UNCHANGED <<content, patIdx, lastIndex, items, seenPositions, result,
                   redacted>>
    /\ UNCHANGED <<rawHits, gh, kb>>
    /\ UNCHANGED <<rx, catalog, prev, loads>>

SetAllowlistPath(filePath) ==
    /\ pc = "idle"
    /\ allowlistPath' = filePath
    /\ ret' = Ret("setPath", filePath, <<>>, Undefined)
    /\ UNCHANGED <<allowlist, now, files, saved, fresh>>
    /\ UNCHANGED scanVars
    /\ UNCHANGED <<rawHits, gh, kb>>
    /\ UNCHANGED <<rx, catalog, prev, loads>>

(* new PIIScanner(allowlistPath?) in a later process: the files stay *)
NewScanner(filePath) ==
    /\ pc = "idle"
    /\ allowlist' = <<>>
    /\ allowlistPath' = IF Falsy(filePath) THEN Null ELSE filePath
    /\ ret' = Ret("new", filePath, <<>>, Undefined)
    /\ fresh' = "new"
    /\ result' = NoResult
    /\ redacted' = NoRedact
    /\ UNCHANGED <<now, files, saved>>
    /\ UNCHANGED <<pc, content, patIdx, lastIndex, items, seenPositions>>
    /\ UNCHANGED <<rawHits, gh, kb>>
    /\ UNCHANGED <<rx, catalog, prev, loads>>

(* A faulty choice that prefers the configured path to the argument *)
TargetPath_ConfiguredFirst(filePath) ==
    IF ~Falsy(allowlistPath) THEN allowlistPath ELSE filePath

(* filePath || this.allowlistPath *)
TargetPath(filePath) ==
    IF ~Falsy(filePath) THEN filePath ELSE allowlistPath

(* JSON.stringify(config, null, 2) followed by JSON.parse, as the parsed  *)
(* document                                                               *)
EntryToJSON(e) ==
    [value |-> e.value, type |-> PropToJSON(e.type),
     reason |-> PropToJSON(e.reason), addedAt |-> DateToJSON(e.addedAt)]

EntryOfJSON(j) ==
    [value |-> j.value, type |-> PropOfJSON(j.type),
     reason |-> PropOfJSON(j.reason), addedAt |-> j.addedAt]

(* entriesKind is the JSON type of the entries property; entries holds   *)
(* the elements when it is an array and is empty otherwise.               *)
ConfigToJSON(m) ==
    [version |-> "1.0",
     lastModified |-> DateToJSON(DateOf(now)),
     entriesKind |-> "array",
     entries |-> [i \in 1..Len(m) |-> EntryToJSON(MapValues(m)[i])]]

(* saveAllowlist(filePath?), awaited.  Directories are not modelled:      *)
(* mkdirSync makes the write possible and changes no document.            *)
SaveAllowlist(filePath) ==
    /\ pc = "idle"
    /\ LET targetPath == TargetPath(filePath)
       IN  IF Falsy(targetPath)
           THEN /\ ret' = Ret("save", Undefined, filePath, "config error")
                /\ UNCHANGED <<files, saved>>
           ELSE /\ files' = [files EXCEPT
                               ![targetPath] = <<ConfigToJSON(allowlist)>>]
                /\ saved' = [saved EXCEPT ![targetPath] = <<allowlist>>]
                /\ ret' = Ret("save", targetPath, filePath, Undefined)
    /\ UNCHANGED <<allowlist, allowlistPath, now, fresh>>
    /\ UNCHANGED scanVars
    /\ UNCHANGED <<rawHits, gh, kb>>
    /\ UNCHANGED <<rx, catalog, prev, loads>>

(* loadAllowlist(filePath?), awaited: what it resolves or rejects with and *)
(* the allowlist it leaves.                                               *)
ParsedEntries(config) ==
    [i \in 1..Len(config.entries) |-> EntryOfJSON(config.entries[i])]

(* A faulty check that looks at the version only *)
ValidConfig_VersionOnly(config) == ~Falsy(config.version)

(* the negation of  !config.version || !Array.isArray(config.entries) *)
ValidConfig(config) ==
    ~(Falsy(config.version) \/ config.entriesKind # "array")

(* A faulty load that empties the allowlist before it looks for the file *)
loadAllowlist_ClearFirst(filePath) ==
    LET targetPath == TargetPath(filePath)
    IN  IF Falsy(targetPath)
        THEN [value |-> "config error", allowlist |-> allowlist]
        ELSE IF files[targetPath] = NoFile
        THEN [value |-> "false", allowlist |-> <<>>]
        ELSE IF ~ValidConfig(files[targetPath][1])
        THEN [value |-> "format error", allowlist |-> <<>>]
        ELSE [value |-> "true",
              allowlist |-> setAllowlistEntries(
                                ParsedEntries(files[targetPath][1]))]

loadAllowlist(filePath) ==
    LET targetPath == TargetPath(filePath)
    IN  IF Falsy(targetPath)
        THEN [value |-> "config error", allowlist |-> allowlist]
        ELSE IF files[targetPath] = NoFile
        THEN [value |-> "false", allowlist |-> allowlist]
        ELSE IF ~ValidConfig(files[targetPath][1])
        THEN [value |-> "format error", allowlist |-> allowlist]
        ELSE [value |-> "true",
              allowlist |-> setAllowlistEntries(
                                ParsedEntries(files[targetPath][1]))]

LoadAllowlist(filePath) ==
    /\ pc = "idle"
    /\ allowlist' = loadAllowlist(filePath).allowlist
    /\ ret' = Ret("load",
                  IF Falsy(TargetPath(filePath)) THEN Undefined
                  ELSE TargetPath(filePath),
                  filePath, loadAllowlist(filePath).value)
    /\ fresh' = IF loadAllowlist(filePath).value # "true" THEN fresh
                ELSE IF fresh = "new" THEN "loaded" ELSE "used"
    /\ UNCHANGED <<allowlistPath, now, files, saved>>
    /\ UNCHANGED scanVars
    /\ UNCHANGED <<rawHits, gh, kb>>
    /\ UNCHANGED <<rx, catalog, prev, loads>>

(* loadAllowlist(filePath?) when the caller does not wait for it.  The   *)
(* call runs up to  await fs.promises.readFile(...)  and leaves a pending *)
(* load; when readFile settles the rest of the body runs without another  *)
(* await.  Other calls of the scanner run between the two.                *)

MaxPending == 2

(* The text of a file that JSON.parse rejects *)
Garbage == [garbage |-> TRUE]

IsJSON(doc) == "version" \in DOMAIN doc

(* The value property of an element of entries that has none: reading it  *)
(* yields undefined, and undefined.toLowerCase() throws a TypeError       *)
MissingValue == <<Undefined>>

(* The elements of entries that the for loop stores before it throws,    *)
(* all of them when every element has a string value                     *)
EntriesBeforeThrow(entries) ==
    LET bad == {k \in 1..Len(entries) : entries[k].value = MissingValue}
    IN  IF bad = {} THEN entries
        ELSE SubSeq(entries, 1,
                    (CHOOSE k \in bad : \A j \in bad : k <= j) - 1)

(* The body after the await: what the call settles with and the          *)
(* allowlist it leaves, for the outcome read of readFile ("io error" or   *)
(* the document)                                                         *)
loadAllowlistResume(read) ==
    IF read = <<>>
    THEN [value |-> "io error", allowlist |-> allowlist]
    ELSE IF ~IsJSON(read[1])
    THEN [value |-> "syntax error", allowlist |-> allowlist]
    ELSE IF ~ValidConfig(read[1])
    THEN [value |-> "format error", allowlist |-> allowlist]
    ELSE IF EntriesBeforeThrow(ParsedEntries(read[1])) # ParsedEntries(read[1])
    THEN [value |-> "type error",
          allowlist |-> setAllowlistEntries(
                            EntriesBeforeThrow(ParsedEntries(read[1])))]
    ELSE [value |-> "true",
          allowlist |-> setAllowlistEntries(ParsedEntries(read[1]))]

(* History of a load that settled: did the allowlist change while it was *)
(* pending, and did it drop a key that was set in the meantime            *)
Settled(before, during, after) ==
    <<[interleaved |-> during # before,
       dropped |-> \E k \in MapKeys(during) \ MapKeys(before) :
                      ~MapHas(after, k)]>>

LoadBegin(filePath) ==
    /\ pc = "idle"
    /\ LET targetPath == TargetPath(filePath)
       IN  IF Falsy(targetPath)
           THEN /\ ret' = Ret("load", Undefined, filePath, "config error")
                /\ loads' = [loads EXCEPT
                                !.last = Settled(allowlist, allowlist,
                                                 allowlist)]
           ELSE IF files[targetPath] = NoFile
           THEN /\ ret' = Ret("load", targetPath, filePath, "false")
                /\ loads' = [loads EXCEPT
                                !.last = Settled(allowlist, allowlist,
                                                 allowlist)]
           ELSE /\ Cardinality(loads.pending) < MaxPending
                /\ ret' = Ret("load", targetPath, filePath, "pending")
                /\ loads' = [loads EXCEPT
                                !.pending = @ \cup
                                    {[arg |-> filePath, path |-> targetPath,
                                      before |-> allowlist]}]
    /\ UNCHANGED <<allowlist, allowlistPath, now, files, saved, fresh>>
    /\ UNCHANGED scanVars
    /\ UNCHANGED <<rawHits, gh, kb, rx, catalog, prev>>

LoadSettle ==
    /\ pc = "idle"
    /\ \E l \in loads.pending : \E read \in {<<>>, files[l.path]} :
          LET r == loadAllowlistResume(read)
          IN  /\ allowlist' = r.allowlist
              /\ ret' = Ret("load", l.path, l.arg, r.value)
              /\ fresh' = IF r.allowlist = allowlist THEN fresh
                          ELSE IF fresh = "new" /\ r.value = "true"
                          THEN "loaded" ELSE "used"
              /\ loads' = [pending |-> loads.pending \ {l},
                           last |-> Settled(l.before, allowlist,
                                            r.allowlist)]
    /\ UNCHANGED <<allowlistPath, now, files, saved>>
    /\ UNCHANGED scanVars
    /\ UNCHANGED <<rawHits, gh, kb, rx, catalog, prev>>

-----------------------------------------------------------------------------
(* The scanner under scan, redact and plain allowlist edits *)

AddPlain ==
    \E v \in Strings(MaxValLen) : AddToAllowlist(v, Undefined, Undefined)

RemoveValue == \E v \in Strings(MaxValLen) : RemoveFromAllowlist(v)

Next ==
    \/ BeginScan
    \/ ExecMatch
    \/ ExecNull
    \/ FinishScan
    \/ Redact
    \/ AddPlain
    \/ RemoveValue

Spec == Init /\ [][Next]_vars

-----------------------------------------------------------------------------
(* The allowlist store under edits, bulk replacement, save and load *)

(* The caller saves to and configures StorePath only; nothing ever       *)
(* exists at MissingPath.                                                 *)
StorePath == "p1"
MissingPath == "p2"

AddMeta ==
    \E v \in Strings(MaxValLen), tr \in {<<Undefined, Undefined>>,
                                         <<"phone", "office">>} :
        AddToAllowlist(v, tr[1], tr[2])

(* Entries as a caller or a parsed document supplies them: with and       *)
(* without type and reason, with a valid and with an Invalid Date.        *)
EntryInputs ==
    { [value |-> v, type |-> tra[1], reason |-> tra[2], addedAt |-> tra[3]] :
        v \in Strings(MaxValLen),
        tra \in { <<Undefined, Undefined, DateOf(now + 1)>>,
                  <<"email", "ok", DateOf(now + 1)>>,
                  <<"email", "ok", InvalidDate>> } }

SetEntry == \E e \in EntryInputs : SetEntriesStep(e)

SetValue == \E v \in Strings(MaxValLen) : SetAllowlistStep(v)

SetPath == SetAllowlistPath(StorePath)

Construct == \E p \in {StorePath, Undefined} : NewScanner(p)

Save == \E p \in {StorePath, Undefined} : SaveAllowlist(p)

Load == \E p \in Paths \cup {Undefined} : LoadAllowlist(p)

NextStore ==
    \/ AddMeta
    \/ RemoveValue
    \/ ClearAllowlist
    \/ BeginSetEntries
    \/ SetEntry
    \/ EndSetEntries
    \/ BeginSetAllowlist
    \/ SetValue
    \/ EndSetAllowlist
    \/ SetPath
    \/ Construct
    \/ Save
    \/ Load

SpecStore == Init /\ [][NextStore]_vars

-----------------------------------------------------------------------------
(* The scanner with either path as argument or as configured path, and    *)
(* documents that another program wrote                                   *)

(* Documents that loadAllowlist must refuse: no version, entries an       *)
(* object, no entries.                                                    *)
ForeignEntry ==
    EntryToJSON([value |-> <<"a">>, type |-> "email", reason |-> Undefined,
                 addedAt |-> DateOf(now)])

ForeignDocs ==
    { [version |-> Absent, lastModified |-> DateToJSON(DateOf(now)),
       entriesKind |-> "array", entries |-> <<ForeignEntry>>],
      [version |-> "1.0", lastModified |-> DateToJSON(DateOf(now)),
       entriesKind |-> "object", entries |-> <<>>],
      [version |-> "1.0", lastModified |-> DateToJSON(DateOf(now)),
       entriesKind |-> "absent", entries |-> <<>>] }

(* Another program writes a document at a path *)
WriteForeign ==
    /\ pc = "idle"
    /\ \E p \in Paths, d \in ForeignDocs :
          /\ files' = [files EXCEPT ![p] = <<d>>]
          /\ saved' = [saved EXCEPT ![p] = <<>>]
          /\ ret' = Ret("write", p, <<>>, Undefined)
    /\ UNCHANGED <<allowlist, allowlistPath, now, fresh>>
    /\ UNCHANGED scanVars
    /\ UNCHANGED <<rawHits, gh, kb>>
    /\ UNCHANGED <<rx, catalog, prev, loads>>

SetAnyPath == \E p \in Paths : SetAllowlistPath(p)

ConstructAny == \E p \in Paths \cup {Undefined} : NewScanner(p)

SaveAny == \E p \in Paths \cup {Undefined} : SaveAllowlist(p)

NextFiles ==
    \/ AddPlain
    \/ SetAnyPath
    \/ ConstructAny
    \/ SaveAny
    \/ Load
    \/ WriteForeign

SpecFiles == Init /\ [][NextFiles]_vars

-----------------------------------------------------------------------------
(* The allowlist under loads that the caller does not wait for, with      *)
(* documents written by hand at StorePath between the calls               *)

(* Elements of entries as another program writes them: values that are   *)
(* not normalized, two that share a normalized value, one without a value *)
HandEntries ==
    { [value |-> <<"A">>, type |-> "email", reason |-> Absent,
       addedAt |-> IsoString(now + 1)],
      [value |-> <<"a">>, type |-> Absent, reason |-> Absent,
       addedAt |-> IsoString(now)],
      [value |-> MissingValue, type |-> "email", reason |-> Absent,
       addedAt |-> IsoString(now)] }

HandDocs ==
    { [version |-> "1.0", lastModified |-> DateToJSON(DateOf(now)),
       entriesKind |-> "array", entries |-> es] :
        es \in UNION {[1..n -> HandEntries] : n \in 0..MaxEntries} }

(* Another program writes a document at StorePath *)
WriteByHand ==
    /\ pc = "idle"
    /\ \E d \in HandDocs \cup ForeignDocs \cup {Garbage} :
          /\ files' = [files EXCEPT ![StorePath] = <<d>>]
          /\ saved' = [saved EXCEPT ![StorePath] = <<>>]
          /\ ret' = Ret("write", StorePath, <<>>, Undefined)
    /\ UNCHANGED <<allowlist, allowlistPath, now, fresh>>
    /\ UNCHANGED scanVars
    /\ UNCHANGED <<rawHits, gh, kb>>
    /\ UNCHANGED <<rx, catalog, prev, loads>>

BeginLoad == \E p \in Paths \cup {Undefined} : LoadBegin(p)

SaveStore == SaveAllowlist(StorePath)

NextLoad ==
    \/ AddPlain
    \/ RemoveValue
    \/ ClearAllowlist
    \/ SaveStore
    \/ WriteByHand
    \/ BeginLoad
    \/ LoadSettle

SpecLoad == Init /\ [][NextLoad]_vars

-----------------------------------------------------------------------------
(* The scanner under scanBatch and scanAndRedact, with plain allowlist    *)
(* additions between the calls                                            *)

NextBatch ==
    \/ AddPlain
    \/ BeginBatch
    \/ ExecMatch
    \/ ExecNull
    \/ BatchNext
    \/ BeginScanAndRedact
    \/ AwaitScan
    \/ ResumeScanAndRedact

SpecBatch == Init /\ [][NextBatch]_vars

-----------------------------------------------------------------------------
(* The scanner with regular expressions that are fixed functions of the   *)
(* content.  Two rules of the catalog match in rx.content: the street    *)
(* address (0.85) and the full address (0.95).                            *)

OracleRules == {9, 11}

(* The spans a match may have in c: it starts and ends on a character     *)
(* that is not a blank                                                    *)
SpansOf(c) ==
    {sp \in Spans : /\ sp[2] <= Len(c)
                    /\ ~IsSpace(c[sp[1] + 1])
                    /\ ~IsSpace(c[sp[2]])}

(* Successive matches of one global regular expression do not overlap *)
MatchSeqs(c) ==
    {sq \in UNION {[1..n -> SpansOf(c)] : n \in 0..MaxLen} :
        \A k \in 1..(Len(sq) - 1) : sq[k][2] <= sq[k + 1][1]}

Oracles ==
    UNION { { [on |-> TRUE, content |-> c,
               seqs |-> [p \in 1..Len(patterns) |->
                           IF p \in OracleRules THEN f[p] ELSE <<>>]] :
              f \in [OracleRules -> MatchSeqs(c)] } :
            c \in Contents(MaxLen) }

InitOracle ==
    /\ allowlist = <<>>
    /\ allowlistPath = Null
    /\ now = 0
    /\ files = [p \in Paths |-> NoFile]
    /\ pc = "idle"
    /\ content = <<>>
    /\ patIdx = 1
    /\ lastIndex = 0
    /\ items = <<>>
    /\ seenPositions = {}
    /\ result = NoResult
    /\ redacted = NoRedact
    /\ ret = Ret("new", Undefined, <<>>, Undefined)
    /\ saved = [p \in Paths |-> <<>>]
    /\ fresh = "new"
    /\ rawHits = [on |-> FALSE, best |-> NoHits, last |-> <<>>]
    /\ gh = NewConnector(DefaultMaxAttempts)
    /\ kb = NewKnowledgeBase
    /\ rx \in Oracles
    /\ catalog = IdentityCatalog
    /\ prev = NoPrev
    /\ loads = NoLoads

(* The same rules in the opposite order *)
ReverseCatalog == [i \in 1..Len(patterns) |-> Len(patterns) + 1 - i]

Catalogs == {IdentityCatalog, ReverseCatalog}

(* A scanner whose catalog holds the same rules in another order *)
Reorder ==
    /\ pc = "idle"
    /\ \E c \in Catalogs \ {catalog} : catalog' = c
    /\ UNCHANGED scanVars
    /\ UNCHANGED storeVars
    /\ UNCHANGED <<rawHits, gh, kb, rx, prev, loads>>

NextOrder ==
    \/ BeginScan
    \/ ExecMatch
    \/ ExecNull
    \/ FinishScan
    \/ Reorder

SpecOrder == InitOracle /\ [][NextOrder]_vars

(* scan, scanBatch, scanAndRedact and redact with plain allowlist        *)
(* additions between the calls                                            *)
NextPure ==
    \/ AddPlain
    \/ BeginScan
    \/ ExecMatch
    \/ ExecNull
    \/ FinishScan
    \/ Redact
    \/ BeginBatch
    \/ BatchNext
    \/ BeginScanAndRedact
    \/ AwaitScan
    \/ ResumeScanAndRedact

SpecPure == InitOracle /\ [][NextPure]_vars

-----------------------------------------------------------------------------
(* The overlap resolver: one scan, started on any content and under an    *)
(* empty or a one-entry allowlist, with the history of its raw hits on    *)

InitResolve ==
    /\ now = 0
    /\ \E v \in {<<>>, <<"a">>} :
          allowlist = IF v = <<>> THEN <<>>
                      ELSE addToAllowlist(<<>>, v, Undefined, Undefined)
    /\ allowlistPath = Null
    /\ files = [p \in Paths |-> NoFile]
    /\ pc = "scanning"
    /\ \E c \in Contents(MaxLen) : content = c
    /\ patIdx = 1
    /\ lastIndex = 0
    /\ items = <<>>
    /\ seenPositions = {}
    /\ result = NoResult
    /\ redacted = NoRedact
    /\ ret = Ret("scan", Undefined, <<>>, Undefined)
    /\ saved = [p \in Paths |-> <<>>]
    /\ fresh = "used"
    /\ rawHits = [on |-> TRUE, best |-> NoHits, last |-> <<>>]
    /\ gh = NewConnector(DefaultMaxAttempts)
    /\ kb = NewKnowledgeBase
    /\ rx = NoOracle
    /\ catalog = IdentityCatalog
    /\ prev = NoPrev
    /\ loads = NoLoads

NextResolve ==
    \/ ExecMatch
    \/ ExecNull
    \/ FinishScan

SpecResolve == InitResolve /\ [][NextResolve]_vars

-----------------------------------------------------------------------------
(* The GitHub connector: construct, request, attempts.  Every attempt    *)
(* ends (the abort timer of makeRequest) and every delay ends, which is   *)
(* the weak fairness of the steps of a request.                           *)

NextGitHub ==
    \/ GhConstruct
    \/ GhRequest
    \/ GhAttempt
    \/ GhExhausted
    \/ GhOperationEnd

SpecGitHub == Init /\ [][NextGitHub]_vars

SpecGitHubLive ==
    /\ SpecGitHub
    /\ WF_vars(GhAttempt)
    /\ WF_vars(GhExhausted)
    /\ WF_vars(GhOperationEnd)

-----------------------------------------------------------------------------
(* The knowledge base under addJobs and clear *)

NextKB ==
    \/ KbAddJobs
    \/ KbClear

SpecKB == Init /\ [][NextKB]_vars

-----------------------------------------------------------------------------
(* The risk classifier on its own: scan has left its loop with            *)
(* non-overlapping one-character items, found by patterns taken in        *)
(* catalog order, and returns.                                            *)

FoundBy(rules) ==
    [i \in 1..Len(rules) |->
        [type |-> patterns[rules[i]].type,
         value |-> <<"A">>,
         position |-> [start |-> i - 1, end |-> i],
         confidence |-> patterns[rules[i]].confidence]]

InitRisk ==
    /\ allowlist = <<>>
    /\ allowlistPath = Null
    /\ now = 0
    /\ files = [p \in Paths |-> NoFile]
    /\ pc = "scanning"
    /\ \E n \in 0..MaxItems :
         \E rules \in [1..n -> 1..Len(patterns)] :
            /\ \A i \in 1..n : \A j \in 1..n : i <= j => rules[i] <= rules[j]
            /\ content = [i \in 1..n |-> "A"]
            /\ items = FoundBy(rules)
            /\ seenPositions = {PositionKey(i - 1, i) : i \in 1..n}
    /\ patIdx = Len(patterns) + 1
    /\ lastIndex = 0
    /\ result = NoResult
    /\ redacted = NoRedact
    /\ ret = Ret("scan", Undefined, <<>>, Undefined)
    /\ saved = [p \in Paths |-> <<>>]
    /\ fresh = "new"
    /\ rawHits = [on |-> FALSE, best |-> NoHits, last |-> <<>>]
    /\ gh = NewConnector(DefaultMaxAttempts)
    /\ kb = NewKnowledgeBase
    /\ rx = NoOracle
    /\ catalog = IdentityCatalog
    /\ prev = NoPrev
    /\ loads = NoLoads

NextRisk == FinishScan

SpecRisk == InitRisk /\ [][NextRisk]_vars

-----------------------------------------------------------------------------
(* Properties *)

Norm(v) == Trim(ToLowerCase(v))

Scanned == result # NoResult

Items == result[1].items

Intersect(a, b) ==
    /\ a.position.start < b.position.end
    /\ b.position.start < a.position.end

\* C1: no two items of a scan result have intersecting spans.
C1_NoOverlap ==
    Scanned =>
        \A i \in 1..Len(Items) : \A j \in 1..Len(Items) :
            i # j => ~Intersect(Items[i], Items[j])

(* The content with each item's span replaced by the item's placeholder   *)
(* and every character outside the spans kept, from offset pos on.        *)
RECURSIVE PlaceholdersAt(_, _, _)
PlaceholdersAt(its, pos, k) ==
    IF k > Len(its) THEN <<>>
    ELSE (IF its[k].position.start = pos
          THEN getRedactionPlaceholder(its[k].type) ELSE <<>>)
         \o PlaceholdersAt(its, pos, k + 1)

RECURSIVE ReplaceSpans(_, _, _)
ReplaceSpans(c, its, pos) ==
    IF pos >= Len(c) THEN <<>>
    ELSE PlaceholdersAt(its, pos, 1)
         \o (IF \E i \in 1..Len(its) :
                   its[i].position.start <= pos /\ pos < its[i].position.end
             THEN <<>> ELSE <<c[pos + 1]>>)
         \o ReplaceSpans(c, its, pos + 1)

\* C2: redact(content, items) of a scan result's items is the content with
\* each item's span replaced by its placeholder and all other characters
\* kept in order; with no items it is the content itself.
C2_RedactReplacesSpans ==
    redacted # NoRedact =>
        /\ redacted[1] = ReplaceSpans(content, Items, 0)
        /\ Items = <<>> => redacted[1] = content

\* C3: every item's value is the content between its start and end
\* offsets, and 0 <= start < end <= length of the content.
C3_SpanIsValue ==
    Scanned =>
        \A i \in 1..Len(Items) :
            /\ 0 <= Items[i].position.start
            /\ Items[i].position.start < Items[i].position.end
            /\ Items[i].position.end <= Len(content)
            /\ Items[i].value =
                 SubSeq(content, Items[i].position.start + 1,
                        Items[i].position.end)

C3_Witness ==
    /\ Scanned
    /\ \E i \in 1..Len(Items) : Items[i].position.start > 0

\* C4: a value that is allowlisted (lower-cased, trimmed) when the scan runs
\* is the matched text of no item of the result.  The allowlist is the one
\* the scan ran against as long as the scan is the last call (ret.op).
C4_AllowlistedNeverReported ==
    (Scanned /\ ret.op = "scan") =>
        \A i \in 1..Len(Items) : Norm(Items[i].value) \notin MapKeys(allowlist)

C4_Witness ==
    /\ Scanned
    /\ ret.op = "scan"
    /\ \E s \in 0..Len(content) - 1 : \E e \in s + 1..Len(content) :
          /\ Norm(SubSeq(content, s + 1, e)) \in MapKeys(allowlist)
          /\ SubSeq(content, s + 1, e) # Norm(SubSeq(content, s + 1, e))
          /\ \E i \in 1..Len(Items) :
                /\ Items[i].position.start <= s
                /\ e <= Items[i].position.end

RiskByRule(its) ==
    IF Len(its) = 0 THEN "none"
    ELSE IF \E i \in 1..Len(its) : its[i].type \in {"ssn", "financial"}
    THEN "high"
    ELSE IF \E i \in 1..Len(its) : its[i].type \in {"address", "dob"}
    THEN "medium"
    ELSE IF Len(its) >= 3 THEN "medium"
    ELSE "low"

\* C5: the risk level is none for zero items, else high if any item is ssn
\* or financial, else medium if any is address or dob, else medium if there
\* are three or more items, else low.
C5_RiskLevel == Scanned => result[1].riskLevel = RiskByRule(Items)

C5_Witness ==
    /\ Scanned
    /\ Len(Items) >= 3
    /\ \A i \in 1..Len(Items) : Items[i].type \in {"phone", "email"}
    /\ result[1].riskLevel = "medium"

IsBlank(c) == \A i \in 1..Len(c) : IsSpace(c[i])

\* C6: hasPII holds exactly when there are items, requiresReview equals
\* hasPII, riskLevel is none exactly when there are no items; an empty or
\* whitespace-only content gives no items, no PII, none, no review.
C6_ResultFlags ==
    Scanned =>
        /\ result[1].hasPII = (Len(Items) > 0)
        /\ result[1].requiresReview = result[1].hasPII
        /\ (result[1].riskLevel = "none") = (Len(Items) = 0)
        /\ IsBlank(content) =>
              /\ result[1].hasPII = FALSE
              /\ Items = <<>>
              /\ result[1].riskLevel = "none"
              /\ result[1].requiresReview = FALSE

C6_Witness ==
    /\ Scanned
    /\ content # <<>>
    /\ IsBlank(content)

\* C7: the items of a scan result are in strictly increasing order of
\* position.start.
C7_StrictlyIncreasingStart ==
    Scanned =>
        \A i \in 2..Len(Items) :
            Items[i].position.start > Items[i - 1].position.start

\* C8: after addToAllowlist(v), isAllowlisted(w) is true for every w whose
\* lower-cased, trimmed form is that of v, and false for every w whose
\* normalized form is the key of no entry; normalizing twice changes nothing.
C8_AllowlistNormalization ==
    ret.op = "add" =>
        \A w \in Strings(MaxLen) :
            /\ Norm(w) = Norm(ret.arg) => isAllowlisted(w)
            /\ Norm(w) \notin MapKeys(allowlist) => ~isAllowlisted(w)
            /\ Norm(Norm(w)) = Norm(w)

C8_Witness ==
    /\ ret.op = "add"
    /\ ret.arg # Norm(ret.arg)
    /\ Len(allowlist) >= 2

EntrySet(m) == {m[i] : i \in 1..Len(m)}

\* C9: saveAllowlist(path) then loadAllowlist(path) on a fresh scanner gives
\* the same set of normalized values as the saving scanner had, each with
\* the same type, reason and addedAt.
C9_SaveLoadRoundTrip ==
    (/\ ret.op = "load"
     /\ ret.value = "true"
     /\ fresh = "loaded"
     /\ saved[ret.path] # <<>>) =>
        EntrySet(allowlist) = EntrySet(saved[ret.path][1])

\* C10: loadAllowlist on a path where no document exists resolves to false,
\* raises nothing, and leaves the allowlist and the configured path as they
\* were.
C10_LoadMissing ==
    [][ (/\ ret'.op = "load"
         /\ ret'.path \in Paths
         /\ files[ret'.path] = NoFile) =>
            /\ ret'.value = "false"
            /\ allowlist' = allowlist
            /\ allowlistPath' = allowlistPath ]_vars

C10_Witness ==
    /\ ret.op = "load"
    /\ ret.value = "false"
    /\ allowlist # <<>>
    /\ allowlistPath # Null

Malformed(config) == config.version = Absent \/ config.entriesKind # "array"

\* C11: loadAllowlist of a document that lacks version, or whose entries
\* field is not a sequence, rejects with a format error and leaves the
\* allowlist exactly as it was before the call.
C11_LoadMalformed ==
    [][ (/\ ret'.op = "load"
         /\ ret'.path \in Paths
         /\ files[ret'.path] # NoFile
         /\ Malformed(files[ret'.path][1])) =>
            /\ ret'.value = "format error"
            /\ allowlist' = allowlist
            /\ files' = files ]_vars

C11_Witness ==
    /\ ret.op = "load"
    /\ ret.value = "format error"
    /\ allowlist # <<>>
    /\ files[ret.path][1].version # Absent

\* C12: saveAllowlist and loadAllowlist use the path argument when given
\* and otherwise the configured path; when neither is available they
\* reject with a configuration error before any file is read, created or
\* written, and the allowlist is unchanged.
C12_PathChoice ==
    [][ ret'.op \in {"save", "load"} =>
           LET expected == IF ret'.arg # Undefined THEN ret'.arg
                           ELSE allowlistPath
           IN  IF expected = Null
               THEN /\ ret'.value = "config error"
                    /\ files' = files
                    /\ allowlist' = allowlist
               ELSE /\ ret'.path = expected
                    /\ ret'.value # "config error"
                    /\ \A p \in Paths \ {expected} : files'[p] = files[p]
                    /\ ret'.op = "save" =>
                          /\ files'[expected] # NoFile
                          /\ allowlist' = allowlist
                    /\ ret'.op = "load" =>
                          /\ files' = files
                          /\ (ret'.value = "false") =
                                 (files[expected] = NoFile) ]_vars

C12_Witness ==
    /\ ret.op = "save"
    /\ ret.arg \in Paths
    /\ allowlistPath \in Paths \ {ret.arg}
    /\ files[allowlistPath] = NoFile
    /\ allowlist # <<>>

C12_WitnessNoPath ==
    /\ ret.op = "load"
    /\ ret.value = "config error"
    /\ allowlist # <<>>
    /\ \E p \in Paths : files[p] # NoFile

(* the last of the given entries or values whose normalized value is k *)
LastIndexFor(values, k) ==
    CHOOSE i \in 1..Len(values) :
        /\ Norm(values[i]) = k
        /\ \A j \in (i + 1)..Len(values) : Norm(values[j]) # k

ValuesOf(entries) == [i \in 1..Len(entries) |-> entries[i].value]

\* C13: setAllowlist(values) and setAllowlistEntries(entries) replace the
\* whole allowlist: the keys are exactly the normalized input values, with
\* one entry per key; setAllowlist entries carry no type and no reason,
\* setAllowlistEntries keeps type, reason and addedAt of the last input
\* with that normalized value.
C13_BulkReplace ==
    /\ ret.op = "setEntries" =>
          /\ MapKeys(allowlist) =
                 {Norm(ret.arg[i].value) : i \in 1..Len(ret.arg)}
          /\ Len(allowlist) = Cardinality(MapKeys(allowlist))
          /\ \A i \in 1..Len(allowlist) :
                LET e == ret.arg[LastIndexFor(ValuesOf(ret.arg),
                                              allowlist[i].key)]
                IN  allowlist[i].entry =
                        [value |-> allowlist[i].key, type |-> e.type,
                         reason |-> e.reason, addedAt |-> e.addedAt]
    /\ ret.op = "setAllowlist" =>
          /\ MapKeys(allowlist) = {Norm(ret.arg[i]) : i \in 1..Len(ret.arg)}
          /\ Len(allowlist) = Cardinality(MapKeys(allowlist))
          /\ \A i \in 1..Len(allowlist) :
                /\ allowlist[i].entry.value = allowlist[i].key
                /\ allowlist[i].entry.type = Undefined
                /\ allowlist[i].entry.reason = Undefined

C13_Witness ==
    /\ ret.op = "setEntries"
    /\ pc = "idle"
    /\ Len(ret.arg) = 2
    /\ ret.arg[1].value # ret.arg[2].value
    /\ Norm(ret.arg[1].value) = Norm(ret.arg[2].value)
    /\ ret.arg[1].type # ret.arg[2].type
    /\ ret.arg[1].addedAt # ret.arg[2].addedAt

C13_WitnessValues ==
    /\ ret.op = "setAllowlist"
    /\ pc = "idle"
    /\ Len(ret.arg) = 2
    /\ Len(allowlist) = 1

Without(m, k) == SelectSeq(m, LAMBDA x : x.key # k)

\* C14: removeFromAllowlist(v) deletes exactly the entry whose key is the
\* normalized form of v and leaves every other entry unchanged (a no-op
\* when absent); clearAllowlist leaves the allowlist empty; a remove of v
\* after an add of a v that was not allowlisted gives back the allowlist
\* from before the add, so scan sees v as it did before.
C14_RemoveAndClear ==
    [][ /\ ret'.op = "remove" =>
              /\ allowlist' = Without(allowlist, Norm(ret'.arg))
              /\ \A w \in Strings(MaxLen) :
                    isAllowlisted(w)' =
                        (isAllowlisted(w) /\ Norm(w) # Norm(ret'.arg))
        /\ ret'.op = "clear" => allowlist' = <<>>
        /\ (ret'.op = "add" /\ ~MapHas(allowlist, Norm(ret'.arg))) =>
              /\ MapHas(allowlist', Norm(ret'.arg))
              /\ MapDelete(allowlist', Norm(ret'.arg)) = allowlist ]_vars

C14_Witness ==
    /\ ret.op = "remove"
    /\ ret.arg # Norm(ret.arg)
    /\ Len(allowlist) >= 1
    /\ \E i \in 1..Len(allowlist) : allowlist[i].entry.type # Undefined

(* r is a result that scan(c) can return under the current allowlist *)
IsScanResultOf(c, r) ==
    /\ r.hasPII = (Len(r.items) > 0)
    /\ r.requiresReview = r.hasPII
    /\ r.riskLevel = RiskByRule(r.items)
    /\ \A i \in 1..Len(r.items) :
          /\ r.items[i].position.start < r.items[i].position.end
          /\ r.items[i].position.end <= Len(c)
          /\ r.items[i].value =
                 Slice(c, r.items[i].position.start, r.items[i].position.end)
          /\ ~isAllowlisted(r.items[i].value)
          /\ \E p \in 1..Len(patterns) :
                /\ patterns[p].type = r.items[i].type
                /\ patterns[p].confidence = r.items[i].confidence
    /\ \A i \in 1..Len(r.items) : \A j \in i..Len(r.items) :
          r.items[i].position.start <= r.items[j].position.start

C16_ScanAndRedact ==
    [][ ret'.op = "scanAndRedact" =>
           /\ allowlist' = allowlist
           /\ allowlistPath' = allowlistPath
           /\ content' = ret'.arg
           /\ pc' = "idle" =>
                 /\ result' # NoResult
                 /\ IsScanResultOf(content, result[1])
                 /\ redacted' = <<redact(content, result[1].items)>> ]_vars

C16_Witness ==
    /\ ret.op = "scanAndRedact"
    /\ pc = "idle"
    /\ Len(result[1].items) > 0
    /\ redacted[1] # content
    /\ allowlist # <<>>

Is5xx(o) == o.kind = "response" /\ o.status >= 500

IsClientError(o) == o.kind = "response" /\ o.status \in {401, 403, 404}

\* C17: a request issued through the retry wrapper is attempted at most
\* maxAttempts times; when every attempt receives a 5xx response exactly
\* maxAttempts attempts are made and the operation fails with a
\* server_error marked retryable; a request that has started always ends.
C17_BoundedRetry ==
    /\ [](/\ Len(gh.trace) <= gh.maxAttempts
          /\ (/\ gh.pc \in {"returned", "thrown", "done"}
              /\ gh.trace # <<>>
              /\ \A i \in 1..Len(gh.trace) : Is5xx(gh.trace[i])) =>
                 /\ Len(gh.trace) = gh.maxAttempts
                 /\ gh.pc # "thrown"
                 /\ gh.pc = "done" =>
                       /\ ~gh.out[1].ok
                       /\ gh.out[1].error.type = "server_error"
                       /\ gh.out[1].error.retryable)
    /\ (gh.pc = "loop" ~> gh.pc = "done")

C17_Witness ==
    /\ gh.pc = "done"
    /\ gh.maxAttempts = DefaultMaxAttempts
    /\ Len(gh.trace) = DefaultMaxAttempts
    /\ \A i \in 1..Len(gh.trace) : Is5xx(gh.trace[i])
    /\ gh.out[1].error.type = "server_error"

ErrorTypeOf(status) ==
    CASE status = 401 -> "unauthorized"
      [] status = 403 -> "forbidden"
      [] status = 404 -> "not_found"

\* C18: a 401, 403 or 404 response is never retried: no attempt follows
\* it, and the operation fails with the mapped error type, with
\* retryable = false for 401 and 404.
C18_ClientErrorNotRetried ==
    /\ \A i \in 1..(Len(gh.trace) - 1) : ~IsClientError(gh.trace[i])
    /\ (gh.trace # <<>> /\ IsClientError(gh.trace[Len(gh.trace)])) =>
          LET last == gh.trace[Len(gh.trace)]
          IN  /\ gh.pc \in {"returned", "done"}
              /\ gh.pc = "done" =>
                    /\ ~gh.out[1].ok
                    /\ gh.out[1].error.type = ErrorTypeOf(last.status)
                    /\ gh.out[1].error.statusCode = last.status
                    /\ last.status \in {401, 404} =>
                          ~gh.out[1].error.retryable

C18_Witness ==
    /\ gh.pc = "done"
    /\ Len(gh.trace) = 2
    /\ Is5xx(gh.trace[1])
    /\ gh.trace[2] = Response(404, FALSE)
    /\ gh.out[1].error.type = "not_found"

(* the pair that identifies a job, compared without regard to case *)
JobPair(job) == <<ToLowerCase(job.title), ToLowerCase(job.company)>>

StoredJobs(k) == {k.jobs[i].entry : i \in 1..Len(k.jobs)}

\* C19: adding jobs that are all stored already does not increase the job
\* count, and of the jobs with the same (title, company) pair, compared
\* case-insensitively, at most one is stored and the others are counted
\* as duplicates, whatever their ids.
C19_Deduplication ==
    [][ kb'.op = "addJobs" =>
           /\ (\A i \in 1..Len(kb'.arg) : kb'.arg[i] \in StoredJobs(kb)) =>
                 Len(kb'.jobs) = Len(kb.jobs)
           /\ \A a \in StoredJobs(kb') : \A b \in StoredJobs(kb') :
                 JobPair(a) = JobPair(b) => a = b
           /\ kb'.ret.added = Len(kb'.jobs) - Len(kb.jobs)
           /\ kb'.ret.duplicates = Len(kb'.arg) - kb'.ret.added ]_vars

\* C20: every raw hit of a scan that is not allowlisted is an item of the
\* result or intersects an item of the result whose confidence is at
\* least its own.
C20_HighestKept ==
    (Scanned /\ rawHits.on) =>
        \A sp \in Spans :
            rawHits.best[sp] > 0 =>
                \E i \in 1..Len(Items) :
                    /\ Items[i].position.start < sp[2]
                    /\ sp[1] < Items[i].position.end
                    /\ Items[i].confidence >= rawHits.best[sp]

(* A step of the scan in which exec returned a match *)
MatchStep ==
    /\ pc = "scanning"
    /\ patIdx' = patIdx
    /\ lastIndex' > lastIndex
    /\ rawHits'.last # <<>>

(* The item that the scan makes of the raw hit h *)
HitItem(h) ==
    [type |-> patterns[h.rule].type,
     value |-> Slice(content, h.start, h.end),
     position |-> [start |-> h.start, end |-> h.end],
     confidence |-> patterns[h.rule].confidence]

HitIntersects(h, item) ==
    h.start < item.position.end /\ item.position.start < h.end

ItemSet(its) == {its[i] : i \in 1..Len(its)}

\* C21: when a hit that is not allowlisted intersects an accepted item of
\* strictly lower confidence, that item is evicted and the hit is accepted,
\* however the two spans intersect (the identical span included).
C21_EvictOnHigher ==
    [][ MatchStep =>
          LET h == rawHits'.last[1]
          IN  ~h.allowlisted =>
                 \A i \in 1..Len(items) :
                    (/\ HitIntersects(h, items[i])
                     /\ patterns[h.rule].confidence > items[i].confidence) =>
                       /\ items[i] \notin ItemSet(items')
                       /\ HitItem(h) \in ItemSet(items') ]_vars

\* C22: when a hit intersects an accepted item whose confidence is equal
\* to or greater than its own, the hit is discarded and the accepted items
\* stay as they were.
C22_IncumbentWinsTies ==
    [][ MatchStep =>
          LET h == rawHits'.last[1]
          IN  (\E i \in 1..Len(items) :
                  /\ HitIntersects(h, items[i])
                  /\ patterns[h.rule].confidence <= items[i].confidence) =>
                 items' = items ]_vars

(* A step in which scan returns *)
ScanReturns ==
    /\ pc = "scanning"
    /\ pc' = "idle"
    /\ ret.op = "scan"
    /\ result' # NoResult

\* C23: the items of a scan do not depend on the order of the rules in
\* the catalog: a scan of the same content under the same allowlist
\* returns the same set of items whatever order the rules are taken in.
C23_OrderIndependent ==
    [][ (/\ ScanReturns
         /\ prev.set
         /\ content = rx.content
         /\ MapKeys(allowlist) = MapKeys(prev.allowlist)) =>
            ItemSet(result'[1].items) = ItemSet(prev.result[1].items) ]_vars

(* A state in which the running scan has taken every rule and returns *)
AnyScanReturns == pc = "scanning" /\ patIdx > Len(patterns)

(* What the scan that returns in this step hands to its caller *)
Returned ==
    IF ret.op = "scanBatch" THEN ret'.value[Len(ret'.value)] ELSE result'[1]

\* C24: no step of scan, scanBatch, scanAndRedact or redact changes the
\* allowlist entries or the configured path, and a scan of a content
\* returns the result that the scan of the same content before it
\* returned when the allowlist is the same.
C24_ScanIsPure ==
    [][ /\ (\/ pc # "idle"
            \/ ret'.op \in {"scan", "scanBatch", "scanAndRedact"}) =>
               /\ allowlist' = allowlist
               /\ allowlistPath' = allowlistPath
        /\ (/\ AnyScanReturns
            /\ prev.set
            /\ content = rx.content
            /\ catalog = prev.catalog
            /\ allowlist = prev.allowlist) =>
               Returned = prev.result[1] ]_vars

C24_Witness ==
    /\ pc = "idle"
    /\ ret.op = "scan"
    /\ prev.repeat
    /\ result = prev.result
    /\ result[1].hasPII
    /\ allowlist # <<>>

\* C30: allowlisting adds no finding: each item that scan reports for a
\* content after addToAllowlist(v) was reported, with the same type, span
\* and confidence, by the scan of that content before the call.
C30_AllowlistOnlyRemoves ==
    [][ (/\ AnyScanReturns
         /\ ret.op = "scan"
         /\ prev.set
         /\ content = rx.content
         /\ catalog = prev.catalog
         /\ \E v \in Strings(MaxValLen) :
               allowlist = addToAllowlist(prev.allowlist, v,
                                          Undefined, Undefined)) =>
            ItemSet(result'[1].items) \subseteq
                ItemSet(prev.result[1].items) ]_vars

(* What addToAllowlist(value, type, reason) stores, for the type and      *)
(* reason arguments that the callers pass                                 *)
AddedEntries(value) ==
    { [value |-> Norm(value), type |-> tr[1], reason |-> tr[2],
       addedAt |-> DateOf(now)] :
        tr \in {<<Undefined, Undefined>>, <<"phone", "office">>} }

\* C25: the allowlist holds at most one entry per normalized value, every
\* entry's value is the normalized key it is stored under, and
\* addToAllowlist of a value whose normalized form is present overwrites
\* that entry's type, reason and addedAt in place.
C25_OneEntryPerValue ==
    /\ [](/\ \A i \in 1..Len(allowlist) : \A j \in 1..Len(allowlist) :
                allowlist[i].key = allowlist[j].key => i = j
          /\ \A i \in 1..Len(allowlist) :
                /\ allowlist[i].key = Norm(allowlist[i].key)
                /\ allowlist[i].entry.value = allowlist[i].key)
    /\ [][ (ret'.op = "add" /\ MapHas(allowlist, Norm(ret'.arg))) =>
              /\ Len(allowlist') = Len(allowlist)
              /\ MapKeys(allowlist') = MapKeys(allowlist)
              /\ \A i \in 1..Len(allowlist) :
                    IF allowlist[i].key = Norm(ret'.arg)
                    THEN /\ allowlist'[i].key = allowlist[i].key
                         /\ allowlist'[i].entry \in AddedEntries(ret'.arg)
                    ELSE allowlist'[i] = allowlist[i] ]_vars

(* the value added last stands before an entry added earlier: the add    *)
(* replaced an entry that was there                                       *)
C25_Witness ==
    /\ ret.op = "add"
    /\ ret.arg # Norm(ret.arg)
    /\ Len(allowlist) = 2
    /\ allowlist[1].key = Norm(ret.arg)
    /\ allowlist[1].entry.type = "phone"
    /\ allowlist[2].entry.type = "email"

IsTimeout(o) == o.kind = "throw" /\ o.name = "TimeoutError"

\* C26: with maxAttempts >= 2, the first attempt of a call that times out
\* is followed by one more attempt, whatever the attempts before it
\* returned, as long as an attempt is left; a second timeout ends the
\* call, which fails with a retryable network_error.
C26_TimeoutRetriedOnce ==
    (gh.pc = "done" /\ gh.maxAttempts >= 2) =>
        LET timeouts == {i \in 1..Len(gh.trace) : IsTimeout(gh.trace[i])}
        IN  /\ \A i \in timeouts :
                  (/\ \A j \in timeouts : i <= j
                   /\ i < gh.maxAttempts) =>
                      Len(gh.trace) > i
            /\ \A i \in timeouts :
                  (\E j \in timeouts : j < i) =>
                      /\ i = Len(gh.trace)
                      /\ ~gh.out[1].ok
                      /\ gh.out[1].error.type = "network_error"
                      /\ gh.out[1].error.retryable

(* none < low < medium < high *)
RiskRank(level) ==
    CASE level = "none" -> 0
      [] level = "low" -> 1
      [] level = "medium" -> 2
      [] level = "high" -> 3

(* The items of its at the indices in keep, in their order *)
RECURSIVE ItemsAt(_, _)
ItemsAt(its, keep) ==
    IF its = <<>> THEN <<>>
    ELSE LET n == Len(its)
             rest == ItemsAt(SubSeq(its, 1, n - 1), keep)
         IN  IF n \in keep THEN Append(rest, its[n]) ELSE rest

\* C27: the risk level is monotone in the items: the level of every
\* subset of the items of a result is at most the level of the result,
\* in the order none < low < medium < high.
C27_RiskMonotone ==
    Scanned =>
        \A keep \in SUBSET (1..Len(Items)) :
            RiskRank(calculateRiskLevel(ItemsAt(Items, keep)))
                <= RiskRank(result[1].riskLevel)

C27_Witness ==
    /\ Scanned
    /\ Len(Items) = MaxItems
    /\ result[1].riskLevel = "high"
    /\ \E keep \in SUBSET (1..Len(Items)) :
          /\ Cardinality(keep) = 2
          /\ calculateRiskLevel(ItemsAt(Items, keep)) = "medium"
          /\ \E one \in keep :
                calculateRiskLevel(ItemsAt(Items, {one})) = "low"


(* The outcomes with which loadAllowlist rejects *)
Rejections ==
    {"config error", "io error", "syntax error", "format error", "type error"}

\* C28: loadAllowlist is all-or-nothing: a call that rejects for any reason
\* (no path, I/O error, unparsable document, missing version, entries not an
\* array, or an element of entries lacking a string value) leaves the
\* allowlist exactly as it was.
C28_RejectLeavesAllowlist ==
    [][ (ret'.op = "load" /\ ret'.value \in Rejections) =>
            allowlist' = allowlist ]_vars

(* The entry the Map holds for key k after the elements es of a document  *)
(* were stored in order: the last element whose normalized value is k     *)
LastWith(es, k) ==
    LET at == {j \in 1..Len(es) : Norm(es[j].value) = k}
        j == CHOOSE x \in at : \A y \in at : y <= x
    IN  [value |-> k, type |-> PropOfJSON(es[j].type),
         reason |-> PropOfJSON(es[j].reason),
         addedAt |-> NewDate(es[j].addedAt)]

\* C29: when loadAllowlist resolves true, the allowlist is exactly the set of
\* normalized entries of the loaded document: one entry per normalized value
\* of the document and nothing else, whatever the allowlist held before the
\* call and whatever other calls did while the load was pending.
C29_LoadReplaces ==
    (ret.op = "load" /\ ret.value = "true") =>
        LET es == files[ret.path][1].entries
            keys == {Norm(es[j].value) : j \in 1..Len(es)}
        IN  /\ MapKeys(allowlist) = keys
            /\ Len(allowlist) = Cardinality(keys)
            /\ \A i \in 1..Len(allowlist) :
                  allowlist[i].entry = LastWith(es, allowlist[i].key)

(* A load resolved true over a non-empty document and dropped a value    *)
(* that another call had added while the load was pending                *)
C29_Witness ==
    /\ ret.op = "load"
    /\ ret.value = "true"
    /\ allowlist # <<>>
    /\ loads.last # <<>>
    /\ loads.last[1].dropped

=============================================================================
